---- MODULE Spec2Model ----
(***************************************************************************)
(* Model of the code sequencing, status lifecycle and bill arithmetic of   *)
(* the repair / billing / licensing backend (src/backend).                 *)
(*                                                                         *)
(* Groups of state, each with its own specification, among them:           *)
(*   SpecCode   - Repair.save / Bill.save / License.save generating a code *)
(*                and inserting the row, as interleaved requests           *)
(*   SpecRepair - the Repair status operations of RepairViewSet            *)
(*   SpecBill   - the Bill operations of BillViewSet and the arithmetic of *)
(*                Bill.save as it reaches the database                     *)
(***************************************************************************)
EXTENDS Integers, Sequences, FiniteSets, TLC

VARIABLES
    kind,        \* the entity kind whose table SpecCode follows
    rows,        \* the table of that kind: the codes of its rows, in insertion order
    proc,        \* per request worker: position inside save() and its outcome
    month,       \* the calendar month the clock shows (datetime.now(), '%Y%m')
    overlapped,  \* history: a save() generated its code while another was between generate and insert
    created,     \* history: the number of rows inserted since the initial state
    failedAfter, \* history: the numbers of INSERT attempts after which a create failed
    deleted,     \* history: the number of rows deleted so far
    retired,     \* history: the codes of the rows deleted so far
    clock,       \* timezone.now(), in ticks
    repair,      \* the Repair table: per id the stored fields of the row
    rounding,    \* how the database rounds a decimal to the column's 2 places
    bill,        \* one row of the Bill table, as stored (money in cents)
    license,     \* one row of the License table
    service,     \* one row of the Service table
    contacts,    \* the CustomerContact table: per id the stored row
    stock,       \* Product.stock_quantity, per product
    purchases,   \* the Purchase table: per id the stored row
    session      \* per Repair request in flight: the instance it loaded

codeVars == <<kind, rows, proc, month, overlapped, created, failedAfter, deleted,
              retired>>
repairVars == <<repair>>
billVars == <<rounding, bill>>
licenseVars == <<license>>
serviceVars == <<service>>
contactVars == <<contacts>>
purchaseVars == <<stock, purchases>>
sessionVars == <<session>>

vars == <<kind, rows, proc, month, overlapped, created, failedAfter, deleted,
          retired, clock, repair, rounding, bill, license, service, contacts, stock,
          purchases, session>>

----------------------------------------------------------------------------
(* Bounds *)

NumProcs == 2      \* concurrent request workers
MaxMonth == 2      \* calendar months the clock runs through
MaxNewRows == 3    \* rows inserted during a run, on top of the initial table
Prefill == 9       \* size of the larger initial table (so that 0009 -> 0010 happens)
MaxDeletes == 1    \* rows deleted during a run
MaxTime == 2       \* ticks of the clock
NumRepairs == 1    \* rows of the Repair table
MaxParts == 1      \* entries of parts_used
MaxCents == 20     \* largest subtotal, in cents, given to the calculator
MaxRateSteps == 20 \* rates given to the calculator: 0%, 5%, ..., 5% * MaxRateSteps
MaxActivations == 2 \* largest activation_count of a License
MaxLicenseTime == 3 \* ticks of the clock while a License is followed (long enough to expire)
NumCustomers == 2  \* rows of the Customer table
NumContacts == 3   \* ids of the CustomerContact table
NumProducts == 1   \* rows of the Product table
NumPurchases == 3  \* ids of the Purchase table
MaxQuantity == 2   \* largest quantity of a purchase request
StartStock == 2    \* stock_quantity of every product in the initial state

(* Program constants *)

SeqWidth == 4      \* f"{new_number:04d}" and repair_code[-4:]

Procs == 1..NumProcs
Months == 1..MaxMonth
Kinds == {"Repair", "Bill", "License"}

----------------------------------------------------------------------------
(* Codes: PREFIX + YYYYMM + decimal digits.  A code is kept as its three   *)
(* parts; the digits are a sequence of characters 0..9.  A character above *)
(* 9 is a letter (10 for A, 11 for B, ...): letters follow the digits in   *)
(* the string order.                                                       *)

PREFIX_TABLE(k) ==
    CASE k = "Repair" -> "RPR"
      [] k = "Bill" -> "BILL"
      [] k = "License" -> "LIC"

RECURSIVE Digits(_)
\* the decimal digits of n, most significant first ("{:d}")
Digits(n) == IF n < 10 THEN <<n>> ELSE Append(Digits(n \div 10), n % 10)

RECURSIVE ZeroPad(_, _)
\* left-pad with 0 up to width w; longer digit strings are kept whole ("{:04d}")
ZeroPad(ds, w) == IF Len(ds) >= w THEN ds ELSE ZeroPad(<<0>> \o ds, w)

FormatSeq(n) == ZeroPad(Digits(n), SeqWidth)

\* repair_code[-4:] : the last SeqWidth characters
LastChars(ds) ==
    IF Len(ds) <= SeqWidth THEN ds ELSE SubSeq(ds, Len(ds) - SeqWidth + 1, Len(ds))

\* int() raises ValueError unless every character is a decimal digit (and
\* there is at least one)
IsNumeric(ds) == Len(ds) > 0 /\ \A i \in 1..Len(ds) : ds[i] \in 0..9

RECURSIVE ParseInt(_)
\* int("0012") = 12
ParseInt(ds) ==
    IF Len(ds) = 0 THEN 0
    ELSE 10 * ParseInt(SubSeq(ds, 1, Len(ds) - 1)) + ds[Len(ds)]

MakeCode(k, m, n) == [prefix |-> PREFIX_TABLE(k), bucket |-> m, suffix |-> FormatSeq(n)]

RECURSIVE StrLess(_, _)
\* string order of two digit strings, character by character; a proper prefix is smaller
StrLess(a, b) ==
    IF Len(b) = 0 THEN FALSE
    ELSE IF Len(a) = 0 THEN TRUE
    ELSE IF a[1] # b[1] THEN a[1] < b[1]
    ELSE StrLess(Tail(a), Tail(b))

\* variant: the filter keeps the entity prefix and drops the month
InBucket_anyMonth(k, tbl, m) ==
    {i \in 1..Len(tbl) : tbl[i].prefix = PREFIX_TABLE(k)}

\* .filter(repair_code__startswith=prefix) : the rows of the bucket
InBucket(k, tbl, m) ==
    {i \in 1..Len(tbl) : tbl[i].prefix = PREFIX_TABLE(k) /\ tbl[i].bucket = m}

\* .order_by('repair_code').last() : index of the greatest code of the bucket
LastInBucket(k, tbl, m) ==
    CHOOSE i \in InBucket(k, tbl, m) :
        \A j \in InBucket(k, tbl, m) : ~StrLess(tbl[i].suffix, tbl[j].suffix)

\* generate_repair_code / generate_bill_number / generate_license_number
generate_code(k, tbl, m) ==
    IF InBucket(k, tbl, m) # {}
    THEN LET last == LastChars(tbl[LastInBucket(k, tbl, m)].suffix)
         IN IF IsNumeric(last)
            THEN MakeCode(k, m, ParseInt(last) + 1)
            ELSE MakeCode(k, m, 1)    \* except (ValueError, IndexError)
    ELSE MakeCode(k, m, 1)

\* variant: the column without its unique constraint
UniqueViolation_off(tbl, c) == FALSE

\* the unique=True constraint of the code column, checked by the INSERT
UniqueViolation(tbl, c) == \E i \in 1..Len(tbl) : tbl[i] = c

----------------------------------------------------------------------------
(* Row creation: save() of a new record, in two steps that other requests  *)
(* can interleave with.                                                    *)

IdleProc == [pc |-> "idle", code |-> <<>>]

\* the table after n sequential creates in month 1
InitRows(k, n) == [i \in 1..n |-> MakeCode(k, 1, i)]

\* the state of the code table before any request
InitCodeTable ==
    /\ kind \in Kinds
    /\ \E n \in {0, Prefill} : rows = InitRows(kind, n)
    /\ proc = [p \in Procs |-> IdleProc]
    /\ month = 1
    /\ overlapped = FALSE
    /\ created = 0
    /\ failedAfter = {}
    /\ deleted = 0
    /\ retired = {}

\* save(), lines "if not self.repair_code: self.repair_code = self.generate_...()"
save_generate(p) ==
    /\ proc[p].pc = "idle"
    /\ created + Cardinality({q \in Procs : proc[q].pc = "generated"}) < MaxNewRows
    /\ proc' = [proc EXCEPT ![p] = [pc |-> "generated",
                                    code |-> generate_code(kind, rows, month)]]
    /\ overlapped' = (overlapped \/ \E q \in Procs \ {p} : proc[q].pc = "generated")
    /\ UNCHANGED <<kind, rows, month, created, failedAfter, deleted, retired, clock,
                 repairVars, billVars, licenseVars, serviceVars,
                 contactVars, purchaseVars, sessionVars>>

\* save(), line "super().save(*args, **kwargs)": the one INSERT of the request.
\* A duplicate code raises IntegrityError, which save() and its callers do not
\* catch: the create fails after this single attempt.
save_insert(p) ==
    /\ proc[p].pc = "generated"
    /\ proc' = [proc EXCEPT ![p] = IdleProc]
    /\ IF UniqueViolation(rows, proc[p].code)
       THEN /\ failedAfter' = failedAfter \cup {1}
            /\ UNCHANGED <<rows, created>>
       ELSE /\ rows' = Append(rows, proc[p].code)
            /\ created' = created + 1
            /\ UNCHANGED failedAfter
    /\ UNCHANGED <<kind, month, overlapped, deleted, retired, clock,
                 repairVars, billVars, licenseVars, serviceVars,
                 contactVars, purchaseVars, sessionVars>>

\* ModelViewSet.destroy (DELETE on the viewset): row i of the table is deleted
destroy(i) ==
    /\ deleted < MaxDeletes
    /\ i \in 1..Len(rows)
    /\ rows' = SubSeq(rows, 1, i - 1) \o SubSeq(rows, i + 1, Len(rows))
    /\ deleted' = deleted + 1
    /\ retired' = retired \cup {rows[i]}
    /\ UNCHANGED <<kind, proc, month, overlapped, created, failedAfter, clock,
                 repairVars, billVars, licenseVars, serviceVars,
                 contactVars, purchaseVars, sessionVars>>

\* the calendar month advances
NextMonth ==
    /\ month < MaxMonth
    /\ month' = month + 1
    /\ UNCHANGED <<kind, rows, proc, overlapped, created, failedAfter, deleted,
                 retired, clock,
                 repairVars, billVars, licenseVars, serviceVars,
                 contactVars, purchaseVars, sessionVars>>

----------------------------------------------------------------------------
(* Repair: status operations of RepairViewSet.  A date is 0 for null and a  *)
(* clock value otherwise.  Every handler loads the row, changes it and      *)
(* saves it; here each handler is one step.                                 *)

RepairIds == 1..NumRepairs

\* Repair.status choices
RepairStatuses ==
    {"requested", "diagnosed", "in_progress", "waiting_parts",
     "completed", "cancelled", "failed"}

\* a status string that is none of the choices (the model column is a plain
\* CharField: save() does not check the choices)
OtherStatus == "on_hold"

\* the row as Repair.objects.create leaves it (field defaults)
NewRepair ==
    [status |-> "requested", started_date |-> 0, completed_date |-> 0,
     ready_for_pickup |-> FALSE, delivered_date |-> 0, parts |-> 0,
     estimated_completion |-> 0]

\* Repair.is_overdue
Repair_is_overdue(r, now) ==
    IF r.estimated_completion # 0 /\ r.status \notin {"completed", "cancelled"}
    THEN now > r.estimated_completion
    ELSE FALSE

\* RepairUpdateSerializer.validate_status: valid_transitions
valid_transitions(current) ==
    CASE current = "requested" -> {"diagnosed", "in_progress", "cancelled"}
      [] current = "diagnosed" -> {"in_progress", "waiting_parts", "cancelled"}
      [] current = "in_progress" -> {"waiting_parts", "completed", "failed", "cancelled"}
      [] current = "waiting_parts" -> {"in_progress", "completed", "cancelled"}
      [] current = "completed" -> {}
      [] current = "cancelled" -> {}
      [] current = "failed" -> {"requested", "diagnosed"}
      [] OTHER -> {}

\* variant: validate_status with the first test only
validate_status_terminal(current, value) ==
    ~(current \in {"completed", "cancelled"} /\ value # current)

\* RepairUpdateSerializer.validate_status: TRUE when the value is accepted
validate_status(current, value) ==
    /\ ~(current \in {"completed", "cancelled"} /\ value # current)
    /\ ~(value \notin valid_transitions(current) /\ value # current)

\* Repair.mark_as_started
mark_as_started(r, now) ==
    [r EXCEPT !.started_date = IF r.started_date = 0 THEN now ELSE @,
              !.status = "in_progress"]

\* Repair.mark_as_completed
mark_as_completed(r, now) ==
    [r EXCEPT !.status = "completed", !.completed_date = now,
              !.ready_for_pickup = TRUE]

\* Repair.mark_as_delivered
mark_as_delivered(r, now) == [r EXCEPT !.delivered_date = now]

\* Repair.add_part_used
add_part_used(r) == [r EXCEPT !.parts = @ + 1]

\* start_repair: the statuses it starts from
CanStart(status) == status \in {"requested", "diagnosed"}

\* complete_repair: the status it completes from
CanComplete(status) == status = "in_progress"

\* variant: the third branch without its guard
BulkCanWrite_any(status) == TRUE

\* bulk_update_status, third branch: the statuses it overwrites
BulkCanWrite(status) == status \notin {"completed", "cancelled"}

\* bulk_update_status: the body of the loop, for one row
bulk_update_one(r, new_status, now) ==
    IF new_status = "in_progress" /\ r.status \in {"requested", "diagnosed"}
    THEN mark_as_started(r, now)
    ELSE IF new_status = "completed" /\ r.status = "in_progress"
    THEN mark_as_completed(r, now)
    ELSE IF BulkCanWrite(r.status)
    THEN [r EXCEPT !.status = new_status]
    ELSE r

Absent == "absent"

\* RepairUpdateSerializer.validate followed by ModelSerializer.update: the
\* row after an accepted update with the given status attribute (Absent: not
\* in the request) and completed_date attribute (<<>>: not in the request,
\* <<0>>: null, <<t>>: the date t)
update_row(r, st, cd, now) ==
    LET status == IF st = Absent THEN r.status ELSE st
        started == IF status = "in_progress" /\ r.started_date = 0
                   THEN now ELSE r.started_date
        cdate == IF status = "completed"
                 THEN (IF cd = <<>> \/ cd = <<0>> THEN now ELSE cd[1])
                 ELSE (IF cd = <<>> THEN r.completed_date ELSE cd[1])
        ready == IF status = "completed" THEN TRUE ELSE r.ready_for_pickup
    IN [r EXCEPT !.status = status, !.started_date = started,
                 !.completed_date = cdate, !.ready_for_pickup = ready]

InitRepair == repair = [i \in RepairIds |-> NewRepair]

\* PUT/PATCH through RepairUpdateSerializer; a rejected request changes nothing
update(i, st, cd) ==
    /\ st \in RepairStatuses \cup {Absent}
    /\ st # Absent => validate_status(repair[i].status, st)
    /\ repair' = [repair EXCEPT ![i] = update_row(@, st, cd, clock)]
    /\ UNCHANGED <<codeVars, contactVars, purchaseVars, sessionVars,
                 clock, billVars, licenseVars, serviceVars>>

start_repair(i) ==
    /\ CanStart(repair[i].status)
    /\ repair' = [repair EXCEPT ![i] = mark_as_started(@, clock)]
    /\ UNCHANGED <<codeVars, contactVars, purchaseVars, sessionVars,
                 clock, billVars, licenseVars, serviceVars>>

complete_repair(i) ==
    /\ CanComplete(repair[i].status)
    /\ repair' = [repair EXCEPT ![i] = mark_as_completed(@, clock)]
    /\ UNCHANGED <<codeVars, contactVars, purchaseVars, sessionVars,
                 clock, billVars, licenseVars, serviceVars>>

deliver(i) ==
    /\ repair[i].status = "completed"
    /\ repair' = [repair EXCEPT ![i] = mark_as_delivered(@, clock)]
    /\ UNCHANGED <<codeVars, contactVars, purchaseVars, sessionVars,
                 clock, billVars, licenseVars, serviceVars>>

add_part(i) ==
    /\ repair[i].parts < MaxParts
    /\ repair' = [repair EXCEPT ![i] = add_part_used(@)]
    /\ UNCHANGED <<codeVars, contactVars, purchaseVars, sessionVars,
                 clock, billVars, licenseVars, serviceVars>>

bulk_update_status(ids, new_status) ==
    /\ ids # {}
    /\ repair' = [i \in RepairIds |->
                    IF i \in ids THEN bulk_update_one(repair[i], new_status, clock)
                    ELSE repair[i]]
    /\ UNCHANGED <<codeVars, contactVars, purchaseVars, sessionVars,
                 clock, billVars, licenseVars, serviceVars>>

Tick ==
    /\ clock < MaxTime
    /\ clock' = clock + 1
    /\ UNCHANGED <<codeVars, contactVars, purchaseVars, sessionVars,
                 repairVars, billVars, licenseVars, serviceVars>>

----------------------------------------------------------------------------
(* Bill: one row of the table.  No Bill operation reads another Bill row,  *)
(* so the bulk operations are followed on this row alone.  Stored money is *)
(* an integer number of cents (decimal_places=2); a rate is an integer     *)
(* number of hundredths of a percent.  In memory the amounts are exact     *)
(* Decimals: they are kept in units of 1/10000 cent, which holds every     *)
(* product subtotal * rate / 100 exactly.                                  *)

BillStatuses == {"pending", "paid", "overdue", "cancelled"}

\* units per cent
Units == 100 * 100

\* request inputs
Subtotals == {10, 100000}
Rates == {0, 400, 500, 600}
Dates == 0..MaxTime
NotesValues == {0, 1}

RoundingModes == {"ROUND_HALF_UP", "ROUND_HALF_EVEN"}

Abs(x) == IF x < 0 THEN -x ELSE x

\* the database's rounding of an exact amount (in units) to the column's two
\* decimal places (in cents)
Quantize(x, mode) ==
    LET q == Abs(x) \div Units
        rem == Abs(x) % Units
        up == IF mode = "ROUND_HALF_UP"
              THEN 2 * rem >= Units
              ELSE 2 * rem > Units \/ (2 * rem = Units /\ q % 2 = 1)
        mag == IF up THEN q + 1 ELSE q
    IN IF x < 0 THEN -mag ELSE mag

\* the instance a request loads from the stored row
load(b) ==
    [b EXCEPT !.tax_amount = @ * Units, !.discount_amount = @ * Units,
              !.amount = @ * Units]

\* variant: the final amount without the discount
Bill_save_nodiscount(inst) ==
    LET tax == IF inst.tax_rate > 0
               THEN inst.subtotal * inst.tax_rate ELSE inst.tax_amount
        disc == IF inst.discount_rate > 0
                THEN inst.subtotal * inst.discount_rate ELSE inst.discount_amount
    IN [inst EXCEPT !.tax_amount = tax, !.discount_amount = disc,
                    !.amount = inst.subtotal * Units + tax]

\* Bill.save: the amounts it computes on the instance
Bill_save(inst) ==
    LET tax == IF inst.tax_rate > 0
               THEN inst.subtotal * inst.tax_rate ELSE inst.tax_amount
        disc == IF inst.discount_rate > 0
                THEN inst.subtotal * inst.discount_rate ELSE inst.discount_amount
    IN [inst EXCEPT !.tax_amount = tax, !.discount_amount = disc,
                    !.amount = inst.subtotal * Units + tax - disc]

\* super().save(): the row written by the database, each DecimalField
\* rounded on its own to 2 places
db_write(inst, mode) ==
    [inst EXCEPT !.tax_amount = Quantize(@, mode),
                 !.discount_amount = Quantize(@, mode),
                 !.amount = Quantize(@, mode)]

\* instance.save() as the stored row sees it
saved(inst, mode) == db_write(Bill_save(inst), mode)

NoBill ==
    [exists |-> FALSE, status |-> "pending", due_date |-> 0, paid_date |-> 0,
     notes |-> 0, subtotal |-> 0, tax_rate |-> 0, discount_rate |-> 0,
     tax_amount |-> 0, discount_amount |-> 0, amount |-> 0]

\* BillCreateSerializer.validate: TRUE when the data is accepted
create_validate(subtotal, tax_rate, discount_rate) ==
    /\ ~(subtotal <= 0)
    /\ ~(tax_rate < 0 \/ tax_rate > 100 * 100)
    /\ ~(discount_rate < 0 \/ discount_rate > 100 * 100)

\* the numeric fields of the Bill serializers; each carries the model field's
\* MinValueValidator(Decimal('0.00'))
NumericFields == {"subtotal", "tax_rate", "discount_rate"}

\* field validation of one numeric value: TRUE when the value is accepted
field_valid(v) == v >= 0

\* BillCreateSerializer.is_valid: field validation, then validate()
create_accepts(subtotal, tax_rate, discount_rate) ==
    /\ field_valid(subtotal) /\ field_valid(tax_rate) /\ field_valid(discount_rate)
    /\ create_validate(subtotal, tax_rate, discount_rate)

\* BillCreateSerializer.create: the instance handed to Bill.objects.create
create_instance(subtotal, tax_rate, discount_rate, due) ==
    [exists |-> TRUE, status |-> "pending", due_date |-> due, paid_date |-> 0,
     notes |-> 0, subtotal |-> subtotal, tax_rate |-> tax_rate,
     discount_rate |-> discount_rate,
     tax_amount |-> subtotal * tax_rate,
     discount_amount |-> subtotal * discount_rate,
     amount |-> subtotal * Units + subtotal * tax_rate - subtotal * discount_rate]

\* variant: validate_status without the paid check
bill_validate_status_any(current, value) == TRUE

\* BillUpdateSerializer.validate_status: TRUE when the value is accepted
bill_validate_status(current, value) == ~(current = "paid" /\ value # "paid")

\* the attributes of an update request: each is <<>> (not in the request) or <<value>>
Opt(S) == {<<>>} \cup {<<v>> : v \in S}

UpdateFields ==
    {"status", "due_date", "paid_date", "notes", "tax_rate", "discount_rate", "subtotal"}

Present(a) == {f \in UpdateFields : a[f] # <<>>}

\* the values a request can give to a field
FieldValues(f) ==
    CASE f = "status" -> BillStatuses
      [] f \in {"due_date", "paid_date"} -> Dates
      [] f = "notes" -> NotesValues
      [] f \in {"tax_rate", "discount_rate"} -> Rates
      [] f = "subtotal" -> Subtotals

NoAttrs == [f \in UpdateFields |-> <<>>]

\* the update requests followed: one attribute, or status together with paid_date
UpdateRequests ==
    UNION {{[NoAttrs EXCEPT ![f] = <<v>>] : v \in FieldValues(f)} : f \in UpdateFields}
    \cup {[NoAttrs EXCEPT !.status = <<st>>, !.paid_date = <<d>>] :
             st \in BillStatuses, d \in Dates}

Get(a, f, default) == IF a[f] = <<>> THEN default ELSE a[f][1]

\* BillUpdateSerializer.is_valid: field validation and validate_status;
\* validate() itself rejects nothing
update_accepts(b, a) ==
    /\ \A f \in NumericFields : a[f] = <<>> \/ field_valid(a[f][1])
    /\ a.status = <<>> \/ bill_validate_status(b.status, a.status[1])

\* BillUpdateSerializer.validate followed by ModelSerializer.update up to
\* instance.save(): the instance with the validated attributes set
update_instance(inst, a, now) ==
    LET paid == IF a.status = <<"paid">> /\ (a.paid_date = <<>> \/ a.paid_date = <<0>>)
                THEN now ELSE Get(a, "paid_date", inst.paid_date)
        recalc == Present(a) \cap {"subtotal", "tax_rate", "discount_rate"} # {}
        subtotal == Get(a, "subtotal", inst.subtotal)
        tax_rate == Get(a, "tax_rate", inst.tax_rate)
        discount_rate == Get(a, "discount_rate", inst.discount_rate)
    IN [inst EXCEPT
          !.status = Get(a, "status", @),
          !.due_date = Get(a, "due_date", @),
          !.paid_date = paid,
          !.notes = Get(a, "notes", @),
          !.subtotal = subtotal,
          !.tax_rate = tax_rate,
          !.discount_rate = discount_rate,
          !.tax_amount = IF recalc THEN subtotal * tax_rate ELSE @,
          !.discount_amount = IF recalc THEN subtotal * discount_rate ELSE @,
          !.amount = IF recalc
                     THEN subtotal * Units + subtotal * tax_rate - subtotal * discount_rate
                     ELSE @]

\* Bill.mark_as_paid, before its save()
mark_as_paid(inst, now) == [inst EXCEPT !.status = "paid", !.paid_date = now]

\* Bill.is_overdue
is_overdue(b, now) == b.due_date # 0 /\ b.status = "pending" /\ now > b.due_date

InitBill ==
    /\ rounding \in RoundingModes
    /\ bill = NoBill

BillAtRest ==
    /\ rounding = "ROUND_HALF_UP"
    /\ bill = NoBill

\* POST through BillCreateSerializer
bill_create(subtotal, tax_rate, discount_rate, due) ==
    /\ ~bill.exists
    /\ create_accepts(subtotal, tax_rate, discount_rate)
    /\ bill' = saved(create_instance(subtotal, tax_rate, discount_rate, due), rounding)
    /\ UNCHANGED <<codeVars, contactVars, purchaseVars, sessionVars,
                 clock, repairVars, rounding, licenseVars, serviceVars>>

\* PUT/PATCH through BillUpdateSerializer
bill_update(a) ==
    /\ bill.exists
    /\ IF update_accepts(bill, a)
       THEN bill' = saved(update_instance(load(bill), a, clock), rounding)
       ELSE bill' = bill
    /\ UNCHANGED <<codeVars, contactVars, purchaseVars, sessionVars,
                 clock, repairVars, rounding, licenseVars, serviceVars>>

\* a direct model save (ModelAdmin change form): the fields are set on the
\* loaded instance and save() is called
bill_model_save(subtotal, tax_rate, discount_rate) ==
    /\ bill.exists
    /\ bill' = saved([load(bill) EXCEPT !.subtotal = subtotal, !.tax_rate = tax_rate,
                                       !.discount_rate = discount_rate], rounding)
    /\ UNCHANGED <<codeVars, contactVars, purchaseVars, sessionVars,
                 clock, repairVars, rounding, licenseVars, serviceVars>>

mark_paid ==
    /\ bill.exists
    /\ IF bill.status = "paid"
       THEN bill' = bill
       ELSE bill' = saved(mark_as_paid(load(bill), clock), rounding)
    /\ UNCHANGED <<codeVars, contactVars, purchaseVars, sessionVars,
                 clock, repairVars, rounding, licenseVars, serviceVars>>

cancel ==
    /\ bill.exists
    /\ IF bill.status = "paid"
       THEN bill' = bill
       ELSE bill' = saved([load(bill) EXCEPT !.status = "cancelled"], rounding)
    /\ UNCHANGED <<codeVars, contactVars, purchaseVars, sessionVars,
                 clock, repairVars, rounding, licenseVars, serviceVars>>

\* bulk_mark_paid with this row's id among bill_ids
bulk_mark_paid ==
    /\ bill.exists
    /\ IF bill.status \in {"pending", "overdue"}
       THEN bill' = saved(mark_as_paid(load(bill), clock), rounding)
       ELSE bill' = bill
    /\ UNCHANGED <<codeVars, contactVars, purchaseVars, sessionVars,
                 clock, repairVars, rounding, licenseVars, serviceVars>>

\* GET overdue: the sweep, a queryset update that does not go through save()
overdue ==
    /\ bill.exists
    /\ IF bill.status = "pending" /\ bill.due_date # 0 /\ bill.due_date < clock
       THEN bill' = [bill EXCEPT !.status = "overdue"]
       ELSE bill' = bill
    /\ UNCHANGED <<codeVars, contactVars, purchaseVars, sessionVars,
                 clock, repairVars, rounding, licenseVars, serviceVars>>

\* Bill.mark_as_overdue
mark_as_overdue ==
    /\ bill.exists
    /\ IF is_overdue(bill, clock)
       THEN bill' = saved([load(bill) EXCEPT !.status = "overdue"], rounding)
       ELSE bill' = bill
    /\ UNCHANGED <<codeVars, contactVars, purchaseVars, sessionVars,
                 clock, repairVars, rounding, licenseVars, serviceVars>>

----------------------------------------------------------------------------
(* License: one row of the table.  A date is 0 for null and a clock value   *)
(* otherwise.  Every handler loads the row, changes it and saves it; here   *)
(* each handler is one step.                                                *)

\* License.status choices
LicenseStatuses == {"active", "expired", "suspended", "revoked", "pending"}

\* usage_data is a JSON value: a dict (is_dict, with its items as a function
\* from keys to values) or something else
UsageKeys == {"session_duration", "user_count"}
UsageValues == {1, 2}
EmptyItems == [k \in {} |-> 0]
Dict(items) == [is_dict |-> TRUE, items |-> items]
NonDict == [is_dict |-> FALSE, items |-> EmptyItems]
Dicts == {Dict(f) : f \in UNION {[K -> UsageValues] : K \in SUBSET UsageKeys}}

\* variant: the delta replaces the stored dict
dict_replace(d, delta) == delta

\* dict.update: key-wise overwrite
dict_update(d, delta) ==
    [k \in DOMAIN d \cup DOMAIN delta |-> IF k \in DOMAIN delta THEN delta[k] ELSE d[k]]

\* the row before it is created, with the field defaults
NoLicense ==
    [exists |-> FALSE, status |-> "pending", ex_date |-> 0, activated_date |-> 0,
     activation_count |-> 0, terms_accepted |-> FALSE, terms_accepted_date |-> 0,
     last_used_date |-> 0, usage_data |-> Dict(EmptyItems)]

\* License.is_expired
is_expired(l, now) == now > l.ex_date

\* License.activate
License_activate(l, now) ==
    [l EXCEPT !.status = "active",
              !.activated_date = now,
              !.activation_count = @ + 1,
              !.terms_accepted = TRUE,
              !.terms_accepted_date = IF ~l.terms_accepted THEN now ELSE @]

\* License.suspend
License_suspend(l) == [l EXCEPT !.status = "suspended"]

\* License.revoke
License_revoke(l) == [l EXCEPT !.status = "revoked"]

\* License.renew
License_renew(l, new_expiry_date) ==
    [l EXCEPT !.ex_date = new_expiry_date,
              !.status = IF @ \in {"expired", "suspended"} THEN "active" ELSE @]

\* License.extend_license
extend_license(l, days) == [l EXCEPT !.ex_date = @ + days]

\* License.update_usage
License_update_usage(l, usage_info, now) ==
    LET data == IF ~l.usage_data.is_dict THEN EmptyItems ELSE l.usage_data.items
    IN [l EXCEPT !.usage_data = Dict(dict_update(data, usage_info)),
                 !.last_used_date = now]

\* License.check_and_update_status
check_and_update_status(l, now) ==
    IF is_expired(l, now) /\ l.status = "active"
    THEN [l EXCEPT !.status = "expired"] ELSE l

\* variant: the activation check without the revoked test
CanActivate_unrevoked(l, now) == ~is_expired(l, now)

\* the check of activate, activate_by_key and bulk_operations before
\* License.activate: TRUE when the activation goes ahead
CanActivate(l, now) == ~(l.status = "revoked") /\ ~is_expired(l, now)

\* LicenseUpdateSerializer.validate_status: TRUE when the value is accepted
license_validate_status(current, value) == ~(current = "revoked" /\ value # "revoked")

\* LicenseCreateSerializer / LicenseUpdateSerializer validate_ex_date
validate_ex_date(value, now) == ~(value <= now)

LicenseAtRest == license = NoLicense

\* the expiry dates a request can carry
ExDates == 1..MaxLicenseTime

\* the attributes of an update request through LicenseUpdateSerializer: each
\* is <<>> (not in the request) or <<value>>
LicenseUpdateFields == {"status", "ex_date", "usage_data", "activation_count"}

NoLicenseAttrs == [f \in LicenseUpdateFields |-> <<>>]

\* update requests with one of status, ex_date, activation_count
LicenseUpdateRequests ==
    {[NoLicenseAttrs EXCEPT !.status = <<v>>] : v \in LicenseStatuses}
    \cup {[NoLicenseAttrs EXCEPT !.ex_date = <<v>>] : v \in ExDates}
    \cup {[NoLicenseAttrs EXCEPT !.activation_count = <<v>>] : v \in 0..MaxActivations}

\* update requests with usage_data
UsageUpdateRequests ==
    {[NoLicenseAttrs EXCEPT !.usage_data = <<v>>] : v \in Dicts \cup {NonDict}}

\* LicenseUpdateSerializer.is_valid
license_update_accepts(l, a, now) ==
    /\ a.ex_date = <<>> \/ validate_ex_date(a.ex_date[1], now)
    /\ a.status = <<>> \/ license_validate_status(l.status, a.status[1])

\* ModelSerializer.update: the validated attributes set on the instance
license_update_instance(l, a) ==
    [l EXCEPT !.status = IF a.status = <<>> THEN @ ELSE a.status[1],
              !.ex_date = IF a.ex_date = <<>> THEN @ ELSE a.ex_date[1],
              !.usage_data = IF a.usage_data = <<>> THEN @ ELSE a.usage_data[1],
              !.activation_count =
                  IF a.activation_count = <<>> THEN @ ELSE a.activation_count[1]]

\* POST through LicenseCreateSerializer, then perform_create
license_create(st, ex, terms) ==
    /\ ~license.exists
    /\ validate_ex_date(ex, clock)
    /\ LET row == [NoLicense EXCEPT !.exists = TRUE, !.status = st, !.ex_date = ex,
                                    !.terms_accepted = terms]
       IN license' = IF terms /\ st = "active" THEN License_activate(row, clock) ELSE row
    /\ UNCHANGED <<codeVars, contactVars, purchaseVars, sessionVars,
                 clock, repairVars, billVars, serviceVars>>

\* PUT/PATCH through LicenseUpdateSerializer, then perform_update
license_update(a) ==
    /\ license.exists
    /\ IF license_update_accepts(license, a, clock)
       THEN license' = check_and_update_status(license_update_instance(license, a), clock)
       ELSE license' = license
    /\ UNCHANGED <<codeVars, contactVars, purchaseVars, sessionVars,
                 clock, repairVars, billVars, serviceVars>>

\* LicenseViewSet.activate
activate ==
    /\ license.exists
    /\ IF CanActivate(license, clock)
       THEN /\ license.activation_count < MaxActivations
            /\ license' = License_activate(license, clock)
       ELSE license' = license
    /\ UNCHANGED <<codeVars, contactVars, purchaseVars, sessionVars,
                 clock, repairVars, billVars, serviceVars>>

\* LicenseViewSet.activate_by_key with this row's key, terms_accepted true and
\* activation_info a dict
activate_by_key(activation_info) ==
    /\ license.exists
    /\ IF CanActivate(license, clock)
       THEN LET used == IF activation_info # EmptyItems
                        THEN License_update_usage(license, activation_info, clock)
                        ELSE license
            IN /\ license.activation_count < MaxActivations
               /\ license' = License_activate(used, clock)
       ELSE license' = license
    /\ UNCHANGED <<codeVars, contactVars, purchaseVars, sessionVars,
                 clock, repairVars, billVars, serviceVars>>

\* LicenseViewSet.suspend
suspend ==
    /\ license.exists
    /\ license' = License_suspend(license)
    /\ UNCHANGED <<codeVars, contactVars, purchaseVars, sessionVars,
                 clock, repairVars, billVars, serviceVars>>

\* LicenseViewSet.revoke
revoke ==
    /\ license.exists
    /\ license' = License_revoke(license)
    /\ UNCHANGED <<codeVars, contactVars, purchaseVars, sessionVars,
                 clock, repairVars, billVars, serviceVars>>

\* the activation_info values followed: none (or {}), and one small dict
ActivationInfos == {EmptyItems, [k \in {"user_count"} |-> 1]}

RenewalTypes == {"extend", "new_period", "custom_date"}

\* LicenseRenewalSerializer.validate: TRUE when the data is accepted
renewal_validate(renewal_type, new_expiry_date, now) ==
    renewal_type = "custom_date" => ~(new_expiry_date <= now)

\* the License after an accepted renew request
renewed(l, renewal_type, days, new_expiry_date, now) ==
    CASE renewal_type = "extend" -> extend_license(l, days)
      [] renewal_type = "new_period" -> License_renew(l, now + days)
      [] renewal_type = "custom_date" -> License_renew(l, new_expiry_date)

\* LicenseViewSet.renew
renew(renewal_type, days, new_expiry_date) ==
    /\ license.exists
    /\ IF renewal_validate(renewal_type, new_expiry_date, clock)
       THEN /\ renewed(license, renewal_type, days, new_expiry_date, clock).ex_date
                  \in ExDates
            /\ license' = renewed(license, renewal_type, days, new_expiry_date, clock)
       ELSE license' = license
    /\ UNCHANGED <<codeVars, contactVars, purchaseVars, sessionVars,
                 clock, repairVars, billVars, serviceVars>>

\* LicenseViewSet.update_usage: usage_info with the request's session_duration
\* written over it, handed to License.update_usage
update_usage(usage_info, session_duration) ==
    /\ license.exists
    /\ IF usage_info.is_dict
       THEN LET extra == IF session_duration = <<>> THEN EmptyItems
                         ELSE [k \in {"session_duration"} |-> session_duration[1]]
            IN license' = License_update_usage(license,
                              dict_update(usage_info.items, extra), clock)
       ELSE license' = license
    /\ UNCHANGED <<codeVars, contactVars, purchaseVars, sessionVars,
                 clock, repairVars, billVars, serviceVars>>

BulkOperations == {"activate", "suspend", "delete", "archive"}

\* LicenseViewSet.bulk_operations with this row's id among license_ids
bulk_operations(operation) ==
    /\ license.exists
    /\ CASE operation = "activate" ->
              IF CanActivate(license, clock)
              THEN /\ license.activation_count < MaxActivations
                   /\ license' = License_activate(license, clock)
              ELSE license' = license
         [] operation = "suspend" -> license' = [license EXCEPT !.status = "suspended"]
         [] operation = "delete" -> license' = NoLicense
         [] OTHER -> license' = license
    /\ UNCHANGED <<codeVars, contactVars, purchaseVars, sessionVars,
                 clock, repairVars, billVars, serviceVars>>

\* the clock while a License is followed
LicenseTick ==
    /\ clock < MaxLicenseTime
    /\ clock' = clock + 1
    /\ UNCHANGED <<codeVars, contactVars, purchaseVars, sessionVars,
                 repairVars, billVars, licenseVars, serviceVars>>

\* the check_expiry_status sweep over this row
check_expiry_status ==
    /\ license.exists
    /\ license' = check_and_update_status(license, clock)
    /\ UNCHANGED <<codeVars, contactVars, purchaseVars, sessionVars,
                 clock, repairVars, billVars, serviceVars>>

----------------------------------------------------------------------------
(* Service: one row of the table.  A date is 0 for null and a clock value   *)
(* otherwise.                                                               *)

\* Service.status choices
ServiceStatuses == {"requested", "in_progress", "completed", "cancelled", "on_hold"}

\* a status string that is none of the choices
OtherServiceStatus == "archived"

\* the row as it is created (field defaults)
NewService ==
    [status |-> "requested", scheduled_date |-> 0, completed_date |-> 0,
     is_active |-> TRUE]

\* Service.save: the fields it sets on the instance before super().save()
Service_save(s, now) ==
    LET stamped == IF s.status = "completed" /\ s.completed_date = 0
                   THEN [s EXCEPT !.completed_date = now] ELSE s
    IN IF stamped.status # "completed" /\ stamped.completed_date # 0
       THEN [stamped EXCEPT !.completed_date = 0] ELSE stamped

\* Service.is_overdue
Service_is_overdue(s, now) ==
    IF s.scheduled_date # 0 /\ s.status \notin {"completed", "cancelled"}
    THEN now > s.scheduled_date
    ELSE FALSE

\* variant: validate_status accepting every value
service_validate_status_any(current, value) == TRUE

\* ServiceUpdateSerializer.validate_status: TRUE when the value is accepted
service_validate_status(current, value) == ~(current = "completed" /\ value # "completed")

\* update_status: TRUE when the request's status is accepted
valid_statuses(new_status) ==
    new_status \in {"requested", "in_progress", "completed", "cancelled", "on_hold"}

ServiceAtRest == service = NewService

\* a Service row with any scheduled_date
InitService == \E d \in Dates : service = [NewService EXCEPT !.scheduled_date = d]

\* PUT/PATCH through ServiceUpdateSerializer with a status
service_update(st) ==
    /\ IF service_validate_status(service.status, st)
       THEN service' = Service_save([service EXCEPT !.status = st], clock)
       ELSE service' = service
    /\ UNCHANGED <<codeVars, contactVars, purchaseVars, sessionVars,
                 clock, repairVars, billVars, licenseVars>>

\* PUT/PATCH through ServiceUpdateSerializer with a scheduled_date
service_reschedule(d) ==
    /\ service' = Service_save([service EXCEPT !.scheduled_date = d], clock)
    /\ UNCHANGED <<codeVars, contactVars, purchaseVars, sessionVars,
                 clock, repairVars, billVars, licenseVars>>

\* ServiceViewSet.update_status: save(update_fields=['status']) writes the
\* status column alone
update_status(new_status) ==
    /\ IF valid_statuses(new_status)
       THEN service' = [service EXCEPT !.status = new_status]
       ELSE service' = service
    /\ UNCHANGED <<codeVars, contactVars, purchaseVars, sessionVars,
                 clock, repairVars, billVars, licenseVars>>

\* ServiceViewSet.toggle_status: save(update_fields=['is_active'])
toggle_status ==
    /\ service' = [service EXCEPT !.is_active = ~@]
    /\ UNCHANGED <<codeVars, contactVars, purchaseVars, sessionVars,
                 clock, repairVars, billVars, licenseVars>>

----------------------------------------------------------------------------
(* CustomerContact: the table, per id.  Requests run one after another.    *)

CustomerIds == 1..NumCustomers
ContactIds == 1..NumContacts

NoContact == [exists |-> FALSE, customer |-> 1, is_primary |-> FALSE, is_active |-> TRUE]

\* variant: save() without the demotion of the other primary contacts
Contact_save_keep(tbl, pk, inst) == [tbl EXCEPT ![pk] = inst]

\* CustomerContact.save: the table after instance.save()
Contact_save(tbl, pk, inst) ==
    LET demoted ==
          [i \in ContactIds |->
              IF /\ inst.is_primary
                 /\ tbl[i].exists /\ tbl[i].customer = inst.customer /\ tbl[i].is_primary
                 /\ i # pk
              THEN [tbl[i] EXCEPT !.is_primary = FALSE]
              ELSE tbl[i]]
    IN [demoted EXCEPT ![pk] = inst]

ContactsAtRest == contacts = [i \in ContactIds |-> NoContact]

\* POST through CustomerContactCreateSerializer: the new row takes the next id
contact_create(pk, customer, is_primary, is_active) ==
    /\ ~contacts[pk].exists
    /\ \A i \in ContactIds : i < pk => contacts[i].exists
    /\ contacts' = Contact_save(contacts, pk,
                       [exists |-> TRUE, customer |-> customer,
                        is_primary |-> is_primary, is_active |-> is_active])
    /\ UNCHANGED <<codeVars, clock, repairVars, billVars, licenseVars, serviceVars,
                   purchaseVars, sessionVars>>

\* PUT/PATCH through CustomerContactUpdateSerializer
contact_update(pk, is_primary, is_active) ==
    /\ contacts[pk].exists
    /\ contacts' = Contact_save(contacts, pk,
                       [contacts[pk] EXCEPT !.is_primary = is_primary,
                                            !.is_active = is_active])
    /\ UNCHANGED <<codeVars, clock, repairVars, billVars, licenseVars, serviceVars,
                   purchaseVars, sessionVars>>

\* set_primary_contact
set_primary_contact(pk) ==
    /\ contacts[pk].exists
    /\ contacts' = Contact_save(contacts, pk, [contacts[pk] EXCEPT !.is_primary = TRUE])
    /\ UNCHANGED <<codeVars, clock, repairVars, billVars, licenseVars, serviceVars,
                   purchaseVars, sessionVars>>

\* toggle_contact_status
toggle_contact_status(pk) ==
    /\ contacts[pk].exists
    /\ contacts' = Contact_save(contacts, pk, [contacts[pk] EXCEPT !.is_active = ~@])
    /\ UNCHANGED <<codeVars, clock, repairVars, billVars, licenseVars, serviceVars,
                   purchaseVars, sessionVars>>

----------------------------------------------------------------------------
(* Purchase and Product.stock_quantity.  Requests run one after another.   *)

ProductIds == 1..NumProducts
PurchaseIds == 1..NumPurchases
Quantities == 1..MaxQuantity

NoPurchase == [exists |-> FALSE, product |-> 1, quantity |-> 0]

PurchasesAtRest ==
    /\ stock = [p \in ProductIds |-> StartStock]
    /\ purchases = [i \in PurchaseIds |-> NoPurchase]

\* the ids the next created rows take
FreeIds == {i \in PurchaseIds : ~purchases[i].exists}

\* PurchaseViewSet.create
purchase_create(pk, product, quantity) ==
    /\ pk \in FreeIds
    /\ purchases' = [purchases EXCEPT ![pk] =
                        [exists |-> TRUE, product |-> product, quantity |-> quantity]]
    /\ stock' = [stock EXCEPT ![product] = @ - quantity]
    /\ UNCHANGED <<codeVars, clock, repairVars, billVars, licenseVars, serviceVars,
                   contactVars, sessionVars>>

\* PurchaseUpdateSerializer.validate_quantity: TRUE when the value is accepted
validate_quantity(pur, stk, value) ==
    /\ ~(value <= 0)
    /\ ~(stk[pur.product] + pur.quantity < value)

\* PurchaseViewSet.update with a quantity
purchase_update(pk, quantity) ==
    /\ purchases[pk].exists
    /\ IF validate_quantity(purchases[pk], stock, quantity)
       THEN /\ purchases' = [purchases EXCEPT ![pk].quantity = quantity]
            /\ stock' = [stock EXCEPT ![purchases[pk].product] =
                            @ - (quantity - purchases[pk].quantity)]
       ELSE UNCHANGED <<purchases, stock>>
    /\ UNCHANGED <<codeVars, clock, repairVars, billVars, licenseVars, serviceVars,
                   contactVars, sessionVars>>

\* PurchaseViewSet.destroy
purchase_destroy(pk) ==
    /\ purchases[pk].exists
    /\ stock[purchases[pk].product] + purchases[pk].quantity <= StartStock + MaxQuantity
    /\ stock' = [stock EXCEPT ![purchases[pk].product] = @ + purchases[pk].quantity]
    /\ purchases' = [purchases EXCEPT ![pk] = NoPurchase]
    /\ UNCHANGED <<codeVars, clock, repairVars, billVars, licenseVars, serviceVars,
                   contactVars, sessionVars>>

RECURSIVE bulk_stock(_, _, _)
\* bulk_create, "Update stock for all products": each purchase carries the
\* Product instance that validation loaded for it (loaded: the stock at that
\* time); the loop decrements that instance and saves its stock_quantity
bulk_stock(loaded, stk, items) ==
    IF items = <<>> THEN stk
    ELSE bulk_stock(loaded, [stk EXCEPT ![Head(items).product] =
                                 loaded[Head(items).product] - Head(items).quantity],
                    Tail(items))

\* the requests of bulk_create: one or two purchases
BulkItems == [product : ProductIds, quantity : Quantities]
BulkRequests == {<<a>> : a \in BulkItems} \cup {<<a, b>> : a, b \in BulkItems}

RECURSIVE NextIds(_, _)
\* the k smallest free ids, in order
NextIds(free, k) ==
    IF k = 0 THEN <<>>
    ELSE LET m == CHOOSE i \in free : \A j \in free : i <= j
         IN <<m>> \o NextIds(free \ {m}, k - 1)

\* PurchaseViewSet.bulk_create
bulk_create(items) ==
    /\ Cardinality(FreeIds) >= Len(items)
    /\ LET ids == NextIds(FreeIds, Len(items))
       IN purchases' =
             [i \in PurchaseIds |->
                 IF \E n \in 1..Len(items) : ids[n] = i
                 THEN LET n == CHOOSE n \in 1..Len(items) : ids[n] = i
                      IN [exists |-> TRUE, product |-> items[n].product,
                          quantity |-> items[n].quantity]
                 ELSE purchases[i]]
    /\ stock' = bulk_stock(stock, stock, items)
    /\ UNCHANGED <<codeVars, clock, repairVars, billVars, licenseVars, serviceVars,
                   contactVars, sessionVars>>

----------------------------------------------------------------------------
(* Repair requests served at the same time.  A view loads the row with     *)
(* get_object(), tests and changes the instance in memory, and             *)
(* Model.save() then writes every column of the instance.  No view opens   *)
(* a transaction or locks the row, so the requests of two workers          *)
(* interleave between the load and the save.                               *)

SessionOps == {"start_repair", "complete_repair", "add_part", "update"}

IdleSession == [pc |-> "idle", op |-> "update", id |-> 1, inst |-> NewRepair]

SessionsAtRest == session = [p \in Procs |-> IdleSession]

\* self.get_object(): the request holds a copy of the stored row
session_load(p, op, i) ==
    /\ session[p].pc = "idle"
    /\ op = "add_part" => repair[i].parts < MaxParts
    /\ session' = [session EXCEPT ![p] =
                      [pc |-> "loaded", op |-> op, id |-> i, inst |-> repair[i]]]
    /\ UNCHANGED <<codeVars, contactVars, purchaseVars, clock, repairVars,
                   billVars, licenseVars, serviceVars>>

\* the view's status test on the loaded instance: TRUE when it goes on
session_allowed(op, inst) ==
    CASE op = "start_repair" -> CanStart(inst.status)
      [] op = "complete_repair" -> CanComplete(inst.status)
      [] OTHER -> TRUE

\* the instance as the view changes it before Model.save()
session_result(op, inst, now) ==
    CASE op = "start_repair" -> mark_as_started(inst, now)
      [] op = "complete_repair" -> mark_as_completed(inst, now)
      [] op = "add_part" -> add_part_used(inst)
      [] OTHER -> update_row(inst, Absent, <<>>, now)

\* the rest of the view: a refused request returns 400 and writes nothing,
\* any other saves the whole instance over the stored row
session_save(p) ==
    /\ session[p].pc = "loaded"
    /\ repair' = IF session_allowed(session[p].op, session[p].inst)
                 THEN [repair EXCEPT ![session[p].id] =
                          session_result(session[p].op, session[p].inst, clock)]
                 ELSE repair
    /\ session' = [session EXCEPT ![p] = IdleSession]
    /\ UNCHANGED <<codeVars, contactVars, purchaseVars, clock,
                   billVars, licenseVars, serviceVars>>

\* the tables that a specification does not follow
OthersAtRest == ContactsAtRest /\ PurchasesAtRest /\ SessionsAtRest

----------------------------------------------------------------------------
(* Specifications.  Each follows one group of state and holds the others   *)
(* at rest.                                                                *)

\* no code table in use
CodeAtRest ==
    /\ kind = "Repair"
    /\ rows = <<>>
    /\ proc = [p \in Procs |-> IdleProc]
    /\ month = 1
    /\ overlapped = FALSE
    /\ created = 0
    /\ failedAfter = {}
    /\ deleted = 0
    /\ retired = {}

InitCode ==
    InitCodeTable /\ clock = 1 /\ InitRepair /\ BillAtRest /\ LicenseAtRest
    /\ ServiceAtRest /\ OthersAtRest

NextCode ==
    \/ \E p \in Procs : save_generate(p)
    \/ \E p \in Procs : save_insert(p)
    \/ \E i \in 1..(Prefill + MaxNewRows) : destroy(i)
    \/ NextMonth

SpecCode == InitCode /\ [][NextCode]_vars

InitRepairSpec ==
    CodeAtRest /\ clock = 1 /\ InitRepair /\ BillAtRest /\ LicenseAtRest
    /\ ServiceAtRest /\ OthersAtRest

NextRepair ==
    \/ \E i \in RepairIds, st \in RepairStatuses \cup {Absent},
          cd \in {<<>>, <<0>>, <<clock>>} : update(i, st, cd)
    \/ \E i \in RepairIds : start_repair(i)
    \/ \E i \in RepairIds : complete_repair(i)
    \/ \E i \in RepairIds : deliver(i)
    \/ \E i \in RepairIds : add_part(i)
    \/ \E ids \in SUBSET RepairIds, st \in RepairStatuses \cup {OtherStatus} :
          bulk_update_status(ids, st)
    \/ Tick

SpecRepair == InitRepairSpec /\ [][NextRepair]_vars

InitBillSpec ==
    CodeAtRest /\ clock = 1 /\ InitRepair /\ InitBill /\ LicenseAtRest
    /\ ServiceAtRest /\ OthersAtRest

NextBill ==
    \/ \E s \in Subtotals, t \in Rates, d \in Rates, due \in Dates : bill_create(s, t, d, due)
    \/ \E a \in UpdateRequests : bill_update(a)
    \/ \E s \in Subtotals, t \in Rates, d \in Rates : bill_model_save(s, t, d)
    \/ mark_paid
    \/ cancel
    \/ bulk_mark_paid
    \/ overdue
    \/ mark_as_overdue
    \/ Tick

SpecBill == InitBillSpec /\ [][NextBill]_vars

InitLicenseSpec ==
    CodeAtRest /\ clock = 1 /\ InitRepair /\ BillAtRest /\ LicenseAtRest
    /\ ServiceAtRest /\ OthersAtRest

\* the License lifecycle; usage information is one small dict
NextLicense ==
    \/ \E st \in LicenseStatuses, ex \in ExDates, terms \in BOOLEAN : license_create(st, ex, terms)
    \/ \E a \in LicenseUpdateRequests : license_update(a)
    \/ activate
    \/ \E info \in ActivationInfos : activate_by_key(info)
    \/ suspend
    \/ revoke
    \/ \E t \in RenewalTypes, d \in ExDates : renew(t, 1, d)
    \/ update_usage(Dict([k \in {"user_count"} |-> 1]), <<>>)
    \/ \E op \in BulkOperations : bulk_operations(op)
    \/ check_expiry_status
    \/ LicenseTick

SpecLicense == InitLicenseSpec /\ [][NextLicense]_vars

\* License usage: every usage request over UsageKeys and UsageValues, on a
\* License in any status
NextLicenseUsage ==
    \/ \E st \in LicenseStatuses, ex \in ExDates : license_create(st, ex, TRUE)
    \/ \E a \in UsageUpdateRequests : license_update(a)
    \/ \E u \in Dicts \cup {NonDict}, sd \in Opt(UsageValues) : update_usage(u, sd)
    \/ LicenseTick

SpecLicenseUsage == InitLicenseSpec /\ [][NextLicenseUsage]_vars

InitServiceSpec ==
    CodeAtRest /\ clock = 1 /\ InitRepair /\ BillAtRest /\ LicenseAtRest
    /\ InitService /\ OthersAtRest

NextService ==
    \/ \E st \in ServiceStatuses : service_update(st)
    \/ \E d \in Dates : service_reschedule(d)
    \/ \E st \in ServiceStatuses \cup {OtherServiceStatus} : update_status(st)
    \/ toggle_status
    \/ Tick

SpecService == InitServiceSpec /\ [][NextService]_vars

\* Bill requests with amounts and rates on both sides of the accepted ranges:
\* -0.01, 0.00 and 0.10 as subtotal; -0.01%, 0%, 5%, 100% and 100.01% as rate
InputSubtotals == {-1, 0, 10}
InputRates == {-1, 0, 500, 100 * 100, 100 * 100 + 1}

InputValues(f) == IF f = "subtotal" THEN InputSubtotals ELSE InputRates

\* update requests that carry one numeric field
InputRequests ==
    UNION {{[NoAttrs EXCEPT ![f] = <<v>>] : v \in InputValues(f)} : f \in NumericFields}

NextBillInput ==
    \/ \E s \in InputSubtotals, t \in InputRates, d \in InputRates, due \in Dates :
          bill_create(s, t, d, due)
    \/ \E a \in InputRequests : bill_update(a)

SpecBillInput == InitBillSpec /\ [][NextBillInput]_vars

\* The calculator alone: Bill(subtotal, tax_rate, discount_rate).save() on a
\* new instance, for every input of a bounded grid.
CalcSubtotals == 0..MaxCents
CalcRates == {500 * k : k \in 0..MaxRateSteps}

InitCalc ==
    /\ CodeAtRest /\ clock = 1 /\ InitRepair /\ LicenseAtRest
    /\ ServiceAtRest /\ OthersAtRest
    /\ rounding \in RoundingModes
    /\ \E s \in CalcSubtotals, t \in CalcRates, d \in CalcRates :
          bill = [NoBill EXCEPT !.subtotal = s, !.tax_rate = t, !.discount_rate = d]

calc_save ==
    /\ ~bill.exists
    /\ bill' = [saved(bill, rounding) EXCEPT !.exists = TRUE]
    /\ UNCHANGED <<codeVars, contactVars, purchaseVars, sessionVars,
                 clock, repairVars, rounding, licenseVars, serviceVars>>

NextCalc == calc_save

SpecCalc == InitCalc /\ [][NextCalc]_vars

----------------------------------------------------------------------------
(* Claims about code generation *)

\* C1: in every reachable state, interleaved creates included, no two stored
\* rows of the entity kind hold the same code.
C1_UniqueCodes ==
    \A i \in 1..Len(rows) : \A j \in 1..Len(rows) : i # j => rows[i] # rows[j]

\* two creates read the same greatest code, and the second insert was refused
C1_Witness ==
    /\ overlapped
    /\ failedAfter # {}
    /\ created >= 1

\* the rows of bucket m, in insertion order
BucketRows(m) == SelectSeq(rows, LAMBDA c : c.bucket = m)

\* k written with four decimal digits (k < 10000)
FourDigits(k) == <<(k \div 1000) % 10, (k \div 100) % 10, (k \div 10) % 10, k % 10>>

\* C2: under sequential execution with no row deleted, the k-th row created with
\* the clock in one calendar month carries sequence number k (0001 first, then
\* 1 plus the trailing number of the greatest code of the bucket), and the
\* first row of a new month carries 0001 again.
C2_SequentialDense ==
    (~overlapped /\ deleted = 0) =>
        /\ failedAfter = {}
        /\ \A m \in Months : \A k \in 1..Len(BucketRows(m)) :
              /\ BucketRows(m)[k].prefix = PREFIX_TABLE(kind)
              /\ BucketRows(m)[k].suffix = FourDigits(k)

\* a sequential run that passed 0009 -> 0010 in month 1 and restarted at 0001 in month 2
C2_Witness ==
    /\ ~overlapped /\ deleted = 0
    /\ created >= 2
    /\ Len(BucketRows(1)) >= 10
    /\ BucketRows(1)[10].suffix = <<0, 0, 1, 0>>
    /\ Len(BucketRows(2)) >= 1
    /\ BucketRows(2)[1].suffix = <<0, 0, 0, 1>>

\* C3: a create fails on a uniqueness violation only after 5 insert attempts,
\* each with a newly generated code; a single collision never fails the create.
C3_RetryUntilBound ==
    \A n \in failedAfter : n >= 5

----------------------------------------------------------------------------
(* Claims about the Repair lifecycle *)

\* the Repair transition table of the specification (the same table as
\* valid_transitions, written out as pairs)
RepairTable ==
    {<<"requested", "diagnosed">>, <<"requested", "in_progress">>,
     <<"requested", "cancelled">>,
     <<"diagnosed", "in_progress">>, <<"diagnosed", "waiting_parts">>,
     <<"diagnosed", "cancelled">>,
     <<"in_progress", "waiting_parts">>, <<"in_progress", "completed">>,
     <<"in_progress", "failed">>, <<"in_progress", "cancelled">>,
     <<"waiting_parts", "in_progress">>, <<"waiting_parts", "completed">>,
     <<"waiting_parts", "cancelled">>,
     <<"failed", "requested">>, <<"failed", "diagnosed">>}

\* C4: every change of a Repair's stored status, by update, start_repair,
\* complete_repair or bulk_update_status, is a pair of the Repair transition
\* table.
C4_RepairTransitions ==
    [][\A i \in RepairIds :
          repair'[i].status # repair[i].status =>
              <<repair[i].status, repair'[i].status>> \in RepairTable]_vars

\* The Repair status operations at one time of day: no Tick between the
\* requests, the time being any of the clock's values
InitRepairStatus ==
    /\ CodeAtRest /\ clock \in 1..MaxTime /\ InitRepair /\ BillAtRest
    /\ LicenseAtRest /\ ServiceAtRest /\ OthersAtRest

NextRepairStatus ==
    \/ \E i \in RepairIds, st \in RepairStatuses \cup {Absent},
          cd \in {<<>>, <<0>>, <<clock>>} : update(i, st, cd)
    \/ \E i \in RepairIds : start_repair(i)
    \/ \E i \in RepairIds : complete_repair(i)
    \/ \E i \in RepairIds : deliver(i)
    \/ \E i \in RepairIds : add_part(i)
    \/ \E ids \in SUBSET RepairIds, st \in RepairStatuses \cup {OtherStatus} :
          bulk_update_status(ids, st)

SpecRepairStatus == InitRepairStatus /\ [][NextRepairStatus]_vars

\* C5: once a Repair's stored status is completed or cancelled, no operation
\* (update, start_repair, complete_repair, deliver, add_part,
\* bulk_update_status), run one after another, changes its status.
C5_RepairTerminal ==
    [][\A i \in RepairIds :
          repair[i].status \in {"completed", "cancelled"} =>
              repair'[i].status = repair[i].status]_vars

\* a completed Repair on which deliver and add_part have acted
C5_Witness ==
    \E i \in RepairIds :
        /\ repair[i].status = "completed"
        /\ repair[i].delivered_date > repair[i].completed_date
        /\ repair[i].parts > 0

----------------------------------------------------------------------------
(* Claims about the Bill lifecycle and arithmetic *)

\* C6: once a Bill's stored status is paid, no operation (update, mark_paid,
\* cancel, bulk_mark_paid, overdue sweep) changes its status.
C6_PaidTerminal ==
    [][(bill.exists /\ bill.status = "paid") => bill'.status = "paid"]_vars

\* a paid Bill on which a later update has acted (it wrote paid_date as null)
C6_Witness == bill.exists /\ bill.status = "paid" /\ bill.paid_date = 0

\* the Bill transition table of the specification
BillTable ==
    {<<"pending", "paid">>, <<"pending", "cancelled">>, <<"pending", "overdue">>,
     <<"overdue", "paid">>, <<"overdue", "cancelled">>}

\* C7: every change of a Bill's stored status is a pair of the Bill table; in
\* particular a cancelled Bill never becomes paid, pending or overdue.
C7_BillTransitions ==
    [][(bill.exists /\ bill'.status # bill.status) =>
          <<bill.status, bill'.status>> \in BillTable]_vars

\* the request writes a field other than notes with a value that differs from the stored one
ChangesLockedField(a) ==
    \E f \in Present(a) \ {"notes", "status"} : a[f][1] # bill[f]

\* C8: for a paid Bill, an update that changes subtotal (or tax_rate,
\* discount_rate, due_date, paid_date) is rejected and leaves every stored
\* field unchanged, while an update of notes alone succeeds.
C8_PaidFieldLock ==
    [][(bill.exists /\ bill.status = "paid") =>
          \A a \in UpdateRequests :
              bill_update(a) =>
                  /\ ChangesLockedField(a) => bill' = bill
                  /\ Present(a) = {"notes"} => bill' = [bill EXCEPT !.notes = a.notes[1]]]_vars

\* C9: in every stored state of a Bill, amount = subtotal + tax_amount -
\* discount_amount.
C9_StoredTotal ==
    bill.exists => bill.amount = bill.subtotal + bill.tax_amount - bill.discount_amount

----------------------------------------------------------------------------
(* Claims about Bill input validation *)

\* subtotal >= 0 and both rates within [0, 100] percent
InRange(subtotal, tax_rate, discount_rate) ==
    /\ subtotal >= 0
    /\ tax_rate >= 0 /\ tax_rate <= 100 * 100
    /\ discount_rate >= 0 /\ discount_rate <= 100 * 100

\* the numeric values an update request carries are within the ranges
RequestInRange(a) ==
    InRange(Get(a, "subtotal", 0), Get(a, "tax_rate", 0), Get(a, "discount_rate", 0))

\* C11: a Bill create or update is accepted exactly when its subtotal is >= 0
\* and its rates lie in [0, 100], on both paths; so no stored Bill ever holds
\* a negative subtotal or a rate outside [0, 100].
C11_InputValidation ==
    /\ bill.exists => InRange(bill.subtotal, bill.tax_rate, bill.discount_rate)
    /\ ~bill.exists =>
          \A s \in InputSubtotals, t \in InputRates, d \in InputRates :
              create_accepts(s, t, d) <=> InRange(s, t, d)
    /\ bill.exists =>
          \A a \in InputRequests : update_accepts(bill, a) <=> RequestInRange(a)

----------------------------------------------------------------------------
(* Claims about the License lifecycle *)

\* a step of one of the activation paths
ActivationStep ==
    \/ activate
    \/ \E info \in ActivationInfos : activate_by_key(info)
    \/ bulk_operations("activate")

\* C12: an activation (activate, activate_by_key, bulk_operations activate)
\* of a License that is revoked, or whose ex_date is earlier than now, leaves
\* its status, activated_date, activation_count, terms_accepted and usage_data
\* unchanged.
C12_ActivationRefused ==
    [][(/\ license.exists
        /\ license.status = "revoked" \/ license.ex_date < clock
        /\ ActivationStep)
       => /\ license'.status = license.status
          /\ license'.activated_date = license.activated_date
          /\ license'.activation_count = license.activation_count
          /\ license'.terms_accepted = license.terms_accepted
          /\ license'.usage_data = license.usage_data]_vars

\* a License that was activated once, then revoked, and whose ex_date has
\* passed since: every activation of it is refused on both grounds
C12_Witness ==
    /\ license.exists
    /\ license.status = "revoked"
    /\ license.ex_date < clock
    /\ license.activation_count = 1

\* C13: once a License is revoked, no operation changes its status.
C13_RevokedTerminal ==
    [][(license.exists /\ license.status = "revoked" /\ license'.exists)
       => license'.status = "revoked"]_vars

\* the License transition table
LicenseTable ==
    {<<"pending", "active">>,
     <<"active", "suspended">>, <<"active", "expired">>, <<"active", "revoked">>,
     <<"suspended", "active">>, <<"suspended", "revoked">>,
     <<"expired", "active">>}

\* C14: every change of a License's stored status is a pair of the License
\* table (so suspend changes the status of an active License only).
C14_LicenseTransitions ==
    [][(license.exists /\ license'.exists /\ license'.status # license.status)
       => <<license.status, license'.status>> \in LicenseTable]_vars

\* C15: an accepted renew of an expired or suspended License leaves it
\* active, under each renewal policy; an accepted renew of a License in
\* another status leaves the status as it was.
C15_RenewReactivates ==
    [][\A t \in RenewalTypes, d \in ExDates :
          (license.exists /\ renew(t, 1, d) /\ renewal_validate(t, d, clock))
          => license'.status = IF license.status \in {"expired", "suspended"}
                               THEN "active" ELSE license.status]_vars

\* the keys of the usage delta of a request: those of usage_info, and
\* session_duration when the request carries it
DeltaKeys(u, sd) ==
    DOMAIN u.items \cup (IF sd = <<>> THEN {} ELSE {"session_duration"})

DeltaValue(u, sd, k) ==
    IF k = "session_duration" /\ sd # <<>> THEN sd[1] ELSE u.items[k]

StoredKeys(l) == IF l.usage_data.is_dict THEN DOMAIN l.usage_data.items ELSE {}

\* C16: update_usage on a License in any status leaves status, ex_date,
\* activation_count and activated_date unchanged, sets each key of the usage
\* delta to the delta's value, keeps every stored key that the delta does not
\* have, and sets last_used_date to now.
C16_UsageMerge ==
    [][\A u \in Dicts, sd \in Opt(UsageValues) :
          (license.exists /\ update_usage(u, sd))
          => /\ license'.status = license.status
             /\ license'.ex_date = license.ex_date
             /\ license'.activation_count = license.activation_count
             /\ license'.activated_date = license.activated_date
             /\ license'.last_used_date = clock
             /\ license'.usage_data.is_dict
             /\ \A k \in DeltaKeys(u, sd) :
                   /\ k \in DOMAIN license'.usage_data.items
                   /\ license'.usage_data.items[k] = DeltaValue(u, sd, k)
             /\ \A k \in StoredKeys(license) \ DeltaKeys(u, sd) :
                   /\ k \in DOMAIN license'.usage_data.items
                   /\ license'.usage_data.items[k] = license.usage_data.items[k]]_vars

\* a revoked License whose usage data holds an overwritten key and a key
\* kept from an earlier request
C16_Witness ==
    /\ license.exists
    /\ license.status = "revoked"
    /\ license.last_used_date = MaxLicenseTime
    /\ license.usage_data = Dict([k \in UsageKeys |->
                                    IF k = "session_duration" THEN 2 ELSE 1])

\* C17: activation_count goes up by exactly 1 on each change of status into
\* active and is changed by nothing else; activated_date is stamped on
\* entering active only when it was unset, and never changes once set.
C17_ActivationCounting ==
    [][(license.exists /\ license'.exists)
       => /\ license'.activation_count =
                IF license.status # "active" /\ license'.status = "active"
                THEN license.activation_count + 1
                ELSE license.activation_count
          /\ license.activated_date # 0
                => license'.activated_date = license.activated_date
          /\ (license.status # "active" /\ license'.status = "active"
                /\ license.activated_date = 0)
                => license'.activated_date = clock]_vars

----------------------------------------------------------------------------
(* Claims about deadlines, the Service lifecycle and the Repair stamps *)

\* the deadline is set, now is later than it and the status is not terminal
PastDeadline(deadline, status, terminal, now) ==
    deadline # 0 /\ now > deadline /\ status \notin terminal

\* C18: is_overdue of a Repair (estimated_completion), a Bill (due_date) and a
\* Service (scheduled_date) is true exactly when the deadline is set, now is
\* later than the deadline and the status is not terminal; it is therefore
\* true for a Bill in status overdue whose due_date has passed.
C18_IsOverdue ==
    /\ \A st \in RepairStatuses, d \in Dates :
          Repair_is_overdue([NewRepair EXCEPT !.status = st,
                                              !.estimated_completion = d], clock)
          <=> PastDeadline(d, st, {"completed", "cancelled"}, clock)
    /\ \A st \in ServiceStatuses, d \in Dates :
          Service_is_overdue([NewService EXCEPT !.status = st,
                                                !.scheduled_date = d], clock)
          <=> PastDeadline(d, st, {"completed", "cancelled"}, clock)
    /\ bill.exists =>
          (is_overdue(bill, clock)
           <=> PastDeadline(bill.due_date, bill.status, {"paid", "cancelled"}, clock))

\* the Service transition table
ServiceTable ==
    {<<"requested", "in_progress">>, <<"requested", "cancelled">>,
     <<"requested", "on_hold">>,
     <<"in_progress", "completed">>, <<"in_progress", "cancelled">>,
     <<"in_progress", "on_hold">>,
     <<"on_hold", "in_progress">>, <<"on_hold", "cancelled">>}

\* C19: every change of a Service's stored status is a pair of the Service
\* table; a completed or cancelled Service never changes status.
C19_ServiceTransitions ==
    [][service'.status # service.status
       => <<service.status, service'.status>> \in ServiceTable]_vars

\* C20: a change of a Repair's status into in_progress stamps started_date
\* exactly when it was unset; a change into completed stamps completed_date
\* and sets ready_for_pickup; an update that carries neither a new status nor
\* a date leaves started_date, completed_date and ready_for_pickup as they
\* were.
C20_RepairStamps ==
    [][\A i \in RepairIds :
          /\ (repair[i].status # "in_progress" /\ repair'[i].status = "in_progress")
                => repair'[i].started_date =
                      IF repair[i].started_date = 0 THEN clock
                      ELSE repair[i].started_date
          /\ (repair[i].status # "completed" /\ repair'[i].status = "completed")
                => /\ repair'[i].completed_date # 0
                   /\ repair'[i].ready_for_pickup
          /\ (\E st \in {Absent, repair[i].status} : update(i, st, <<>>))
                => /\ repair'[i].started_date = repair[i].started_date
                   /\ repair'[i].completed_date = repair[i].completed_date
                   /\ repair'[i].ready_for_pickup = repair[i].ready_for_pickup]_vars

----------------------------------------------------------------------------
(* CustomerContact requests, one after another *)

InitContactSpec ==
    /\ CodeAtRest
    /\ clock = 1
    /\ InitRepair
    /\ rounding \in RoundingModes
    /\ bill = NoBill
    /\ LicenseAtRest
    /\ ServiceAtRest
    /\ OthersAtRest

NextContacts ==
    \/ \E pk \in ContactIds, c \in CustomerIds, prim \in BOOLEAN, act \in BOOLEAN :
          contact_create(pk, c, prim, act)
    \/ \E pk \in ContactIds, prim \in BOOLEAN, act \in BOOLEAN :
          contact_update(pk, prim, act)
    \/ \E pk \in ContactIds : set_primary_contact(pk)
    \/ \E pk \in ContactIds : toggle_contact_status(pk)

SpecContacts == InitContactSpec /\ [][NextContacts]_vars

\* the primary contacts of a customer in a table
Primaries(tbl, c) ==
    {i \in ContactIds : tbl[i].exists /\ tbl[i].customer = c /\ tbl[i].is_primary}

\* a request that saves contact pk with is_primary true
SavesPrimary(pk) ==
    \/ \E c \in CustomerIds, act \in BOOLEAN : contact_create(pk, c, TRUE, act)
    \/ \E act \in BOOLEAN : contact_update(pk, TRUE, act)
    \/ set_primary_contact(pk)

\* C21: after every create, update and set_primary_contact each customer has
\* at most one primary contact; a save of a contact with is_primary true
\* leaves it the only primary of its customer, the other contacts of that
\* customer non-primary, and the contacts of other customers as they were.
C21_OnePrimary ==
    [][/\ \A c \in CustomerIds : Cardinality(Primaries(contacts', c)) <= 1
       /\ \A pk \in ContactIds :
             SavesPrimary(pk)
                => /\ Primaries(contacts', contacts'[pk].customer) = {pk}
                   /\ \A i \in ContactIds \ {pk} :
                         IF contacts[i].exists
                            /\ contacts[i].customer = contacts'[pk].customer
                         THEN contacts'[i] = [contacts[i] EXCEPT !.is_primary = FALSE]
                         ELSE contacts'[i] = contacts[i]]_vars

\* two contacts of customer 1 of which the later one took the primary flag
\* from the earlier, beside a primary contact of customer 2
C21_Witness ==
    /\ contacts[1].exists /\ contacts[1].customer = 1 /\ ~contacts[1].is_primary
    /\ contacts[2].exists /\ contacts[2].customer = 2 /\ contacts[2].is_primary
    /\ contacts[3].exists /\ contacts[3].customer = 1 /\ contacts[3].is_primary

----------------------------------------------------------------------------
(* Claims about the Repair update serializer *)

\* Repair updates through RepairUpdateSerializer, beside the views that
\* start and complete a Repair and add a part
NextRepairUpdate ==
    \/ \E i \in RepairIds, st \in RepairStatuses \cup {Absent},
          cd \in {<<>>, <<0>>, <<clock>>} : update(i, st, cd)
    \/ \E i \in RepairIds : start_repair(i)
    \/ \E i \in RepairIds : complete_repair(i)
    \/ \E i \in RepairIds : add_part(i)
    \/ Tick

SpecRepairUpdate == InitRepairSpec /\ [][NextRepairUpdate]_vars

\* C22: for every current and target of the seven Repair statuses,
\* RepairUpdateSerializer accepts the status write exactly when the target is
\* the current status or is in the table row of the current status; every
\* update step that carries a status is an accepted one and stores the
\* target, so a rejected write is no step of the row (the stored status
\* stays as it was).
C22_UpdateAccepts ==
    /\ [](\A i \in RepairIds, st \in RepairStatuses :
             repair[i].status \in RepairStatuses =>
                (validate_status(repair[i].status, st)
                    <=> (st = repair[i].status
                         \/ <<repair[i].status, st>> \in RepairTable)))
    /\ [][\A i \in RepairIds :
             (/\ repair'[i].status # repair[i].status
              /\ \E cd \in {<<>>, <<0>>, <<clock>>} :
                    update(i, repair'[i].status, cd))
                => <<repair[i].status, repair'[i].status>> \in RepairTable]_vars

\* a failed Repair: the write to requested is accepted, the write to
\* in_progress is rejected
C22_Witness ==
    /\ repair[1].status = "failed"
    /\ validate_status(repair[1].status, "requested")
    /\ ~validate_status(repair[1].status, "in_progress")

----------------------------------------------------------------------------
(* Claims about the Bill payment stamp and stored amounts *)

\* C23: while the stored status of a Bill is paid, paid_date is non-null
\* and no operation changes it: a later update that writes status paid again
\* or paid_date null leaves it as it was.
C23_PaidDateKept ==
    [][bill'.exists /\ bill'.status = "paid"
          => /\ bill'.paid_date # 0
             /\ bill.exists /\ bill.status = "paid"
                   => bill'.paid_date = bill.paid_date]_vars

----------------------------------------------------------------------------
(* Code generation over tables that creation alone does not build at these *)
(* bounds: a table holding a row saved with a preset code (save() keeps a  *)
(* code that is already set), and the table that is left of a month with   *)
(* 9999 creations after the older rows were deleted.                       *)

\* a code of the bucket whose last four characters are the letters ABCD
CorruptCode(k, m) == [prefix |-> PREFIX_TABLE(k), bucket |-> m, suffix |-> <<10, 11, 12, 13>>]

CorruptTables(k) ==
    {<<CorruptCode(k, 1)>>,
     <<MakeCode(k, 1, 1), MakeCode(k, 1, 2), CorruptCode(k, 1)>>}

\* the greatest sequence number that SeqWidth digits hold
LastSeq == ParseInt([i \in 1..SeqWidth |-> 9])

FullTables(k) == {<<MakeCode(k, 1, LastSeq - 1), MakeCode(k, 1, LastSeq)>>}

InitCodeCorrupt ==
    /\ kind \in Kinds
    /\ rows \in CorruptTables(kind)
    /\ proc = [p \in Procs |-> IdleProc]
    /\ month = 1
    /\ overlapped = FALSE
    /\ created = 0
    /\ failedAfter = {}
    /\ deleted = 0
    /\ retired = {}
    /\ clock = 1 /\ InitRepair /\ BillAtRest /\ LicenseAtRest
    /\ ServiceAtRest /\ OthersAtRest

SpecCodeCorrupt == InitCodeCorrupt /\ [][NextCode]_vars

InitCodeFull ==
    /\ kind \in Kinds
    /\ rows \in FullTables(kind)
    /\ proc = [p \in Procs |-> IdleProc]
    /\ month = 1
    /\ overlapped = FALSE
    /\ created = 0
    /\ failedAfter = {}
    /\ deleted = 0
    /\ retired = {}
    /\ clock = 1 /\ InitRepair /\ BillAtRest /\ LicenseAtRest
    /\ ServiceAtRest /\ OthersAtRest

SpecCodeFull == InitCodeFull /\ [][NextCode]_vars

----------------------------------------------------------------------------
(* Claims about the code generator at its edges *)

\* the first code of the bucket, counting from 0001, that no row of tbl holds
FirstUnused(k, tbl, m) ==
    MakeCode(k, m, CHOOSE n \in 1..(Len(tbl) + 1) :
                      /\ ~UniqueViolation(tbl, MakeCode(k, m, n))
                      /\ \A j \in 1..(n - 1) : UniqueViolation(tbl, MakeCode(k, m, j)))

\* the greatest code of the bucket does not end in four digits
GreatestNonNumeric(k, tbl, m) ==
    /\ InBucket(k, tbl, m) # {}
    /\ ~IsNumeric(LastChars(tbl[LastInBucket(k, tbl, m)].suffix))

\* C24: when the greatest code of the bucket has non-numeric last four
\* characters, generation returns the first code of the bucket, scanning
\* from 0001, that no stored record uses.
C24_ScanForward ==
    [][\A p \in Procs :
          save_generate(p) /\ GreatestNonNumeric(kind, rows, month)
             => proc'[p].code = FirstUnused(kind, rows, month)]_vars

\* C25: every generated code has exactly SeqWidth decimal digits after
\* PREFIX and YYYYMM and differs from every stored code, also when the
\* greatest sequence number of the bucket is 9999.
C25_FourDigitsFresh ==
    [][\A p \in Procs :
          save_generate(p)
             => /\ Len(proc'[p].code.suffix) = SeqWidth
                /\ IsNumeric(proc'[p].code.suffix)
                /\ ~UniqueViolation(rows, proc'[p].code)]_vars

\* C27: no stored row holds the code of a row that was deleted before.
C27_NoReuse == \A i \in 1..Len(rows) : rows[i] \notin retired

----------------------------------------------------------------------------
(* Claims about stored Bill amounts, the Service completion date, Repair  *)
(* requests served at the same time, and the stock                        *)

\* C26: after every saved write the stored tax_amount is
\* subtotal * tax_rate / 100 and the stored discount_amount is
\* subtotal * discount_rate / 100 (each as the column rounds it), also when
\* a rate went from positive to 0.
C26_AmountsFollowRates ==
    bill.exists =>
        /\ bill.tax_amount = Quantize(bill.subtotal * bill.tax_rate, rounding)
        /\ bill.discount_amount = Quantize(bill.subtotal * bill.discount_rate, rounding)

\* C28: in every stored state of a Service, completed_date is set exactly
\* when the status is completed.
C28_CompletedDateIffCompleted ==
    (service.completed_date # 0) <=> (service.status = "completed")

\* Repair requests of NumProcs workers, interleaved between load and save
NextRepairSessions ==
    \/ \E p \in Procs, op \in SessionOps, i \in RepairIds : session_load(p, op, i)
    \/ \E p \in Procs : session_save(p)
    \/ Tick

SpecRepairSessions == InitRepairSpec /\ [][NextRepairSessions]_vars

\* C29: with requests served at the same time, a Repair whose stored status
\* is completed or cancelled has no non-terminal stored status afterwards.
C29_TerminalKept ==
    [][\A i \in RepairIds :
          repair[i].status \in {"completed", "cancelled"}
             => repair'[i].status \in {"completed", "cancelled"}]_vars

\* Purchase requests, one after another
InitPurchaseSpec ==
    /\ CodeAtRest
    /\ clock = 1
    /\ InitRepair
    /\ BillAtRest
    /\ LicenseAtRest
    /\ ServiceAtRest
    /\ OthersAtRest

NextPurchases ==
    \/ \E pk \in PurchaseIds, product \in ProductIds, q \in Quantities :
          purchase_create(pk, product, q)
    \/ \E pk \in PurchaseIds, q \in 0..MaxQuantity : purchase_update(pk, q)
    \/ \E pk \in PurchaseIds : purchase_destroy(pk)
    \/ \E items \in BulkRequests : bulk_create(items)

SpecPurchases == InitPurchaseSpec /\ [][NextPurchases]_vars

RECURSIVE Sold(_, _)
\* the sum of the quantities of the purchases of a product with ids in S
Sold(S, product) ==
    IF S = {} THEN 0
    ELSE LET i == CHOOSE i \in S : TRUE
         IN (IF purchases[i].exists /\ purchases[i].product = product
             THEN purchases[i].quantity ELSE 0) + Sold(S \ {i}, product)

\* C30: for every product, stock_quantity plus the quantities of its existing
\* purchases stays what it was, through every create, update of quantity,
\* delete and bulk_create.
C30_StockConserved ==
    \A product \in ProductIds : stock[product] + Sold(PurchaseIds, product) = StartStock

====
